---- MODULE Spec2Model ----
(***************************************************************************)
(* Model of the marketplace crawler (src/src/crawler.py).                  *)
(*                                                                         *)
(* Strings are sequences of tokens: a slug is a sequence of characters, a  *)
(* literal fragment of an f-string is one token.  An Optional[T] value is  *)
(* a sequence of length 0 (None) or 1 (the value).  A field of a JSON      *)
(* mapping is absent, null or a value.                                     *)
(***************************************************************************)
EXTENDS Integers, Sequences, FiniteSets, Bags, TLC

\* ---------------------------------------------------------------- bounds
MaxServers == 2
MaxSlugLen == 3
MaxDocLen == 3

\* ------------------------------------------------------ program constants
MARKETPLACE_API_URL == <<"https://www.dedaluslabs.ai/api/marketplace">>
MARKETPLACE_BASE_URL == <<"https://www.dedaluslabs.ai/marketplace">>
GITHUB_BASE_URL == <<"https://github.com">>
MAX_WORKERS == 5

\* ------------------------------------------------------- generic helpers
None == <<>>
Some(x) == <<x>>
IsNone(o) == Len(o) = 0
The(o) == o[1]

Absent == [k |-> "absent"]
Null == [k |-> "null"]
Val(v) == [k |-> "val", v |-> v]

\* dict.get(key): None when the key is absent, the stored value otherwise
\* (a stored null is None as well).
Get(f) == IF f.k = "val" THEN Some(f.v) ELSE None

\* dict.get(key, default): the default only when the key is absent.
GetDefault(f, d) == IF f.k = "absent" THEN Some(d) ELSE Get(f)

\* Python truthiness of an optional string: None and "" are falsy.
TruthyStr(o) == ~IsNone(o) /\ Len(The(o)) > 0

\* Python truthiness of an optional boolean.
TruthyBool(o) == ~IsNone(o) /\ The(o) = TRUE

\* a or b
OrElse(a, b) == IF TruthyStr(a) THEN a ELSE b

RECURSIVE FirstIndex(_, _, _)
\* str.find: index of the first occurrence of character c at or after i, 0 if none
FirstIndex(s, c, i) ==
    IF i > Len(s) THEN 0
    ELSE IF s[i] = c THEN i
    ELSE FirstIndex(s, c, i + 1)

RECURSIVE LastIndex(_, _, _)
\* str.rfind: index of the last occurrence of character c at or before i, 0 if none
LastIndex(s, c, i) ==
    IF i < 1 THEN 0
    ELSE IF s[i] = c THEN i
    ELSE LastIndex(s, c, i - 1)

\* variant: str.rsplit(sep, 1), the split at the last separator
Split1Last(s, sep) ==
    LET i == LastIndex(s, sep, Len(s))
    IN IF i = 0 THEN <<s>>
       ELSE <<SubSeq(s, 1, i - 1), SubSeq(s, i + 1, Len(s))>>

\* str.split(sep, 1): one part when sep does not occur, else two parts
Split1(s, sep) ==
    LET i == FirstIndex(s, sep, 1)
    IN IF i = 0 THEN <<s>>
       ELSE <<SubSeq(s, 1, i - 1), SubSeq(s, i + 1, Len(s))>>

\* s contains sub as a contiguous run of tokens
Contains(s, sub) ==
    \E i \in 1..(Len(s) + 1) :
        /\ i + Len(sub) - 1 <= Len(s)
        /\ SubSeq(s, i, i + Len(sub) - 1) = sub

\* ------------------------------------------------------------ normalizer
EmptyTags == [auth |-> Absent, language |-> Absent]
EmptyAuth == [api_key |-> Absent, oauth |-> Absent, none |-> Absent]

\* ServerInfo(...) as constructed at the end of _parse_api_server
ServerInfo(name, slug, publisher, description, github_url, marketplace_url, language, heat_score, upvote_count, auth_required) ==
    [name |-> name, slug |-> slug, publisher |-> publisher,
     description |-> description, github_url |-> github_url,
     marketplace_url |-> marketplace_url, language |-> language,
     heat_score |-> heat_score, upvote_count |-> upvote_count,
     tools |-> <<>>, auth_required |-> auth_required]

\* "publisher = parts[0] if len(parts) > 0 else 'unknown'"
PublisherOf(parts) == IF Len(parts) > 0 THEN parts[1] ELSE <<"unknown">>

\* "name = parts[1] if len(parts) > 1 else slug"
NameOf(parts, slug) == IF Len(parts) > 1 THEN parts[2] ELSE slug

\* variant: the oauth flag is tested before the api_key flag
AuthRequiredOauthFirst(auth_info) ==
    IF TruthyBool(Get(auth_info.oauth)) THEN Some("oauth")
    ELSE IF TruthyBool(Get(auth_info.api_key)) THEN Some("api_key")
    ELSE IF TruthyBool(Get(auth_info.none)) THEN Some("none")
    ELSE None

\* the if / elif chain over auth_info.get("api_key" / "oauth" / "none")
AuthRequired(auth_info) ==
    IF TruthyBool(Get(auth_info.api_key)) THEN Some("api_key")
    ELSE IF TruthyBool(Get(auth_info.oauth)) THEN Some("oauth")
    ELSE IF TruthyBool(Get(auth_info.none)) THEN Some("none")
    ELSE None

\* variant: the listing URL built from the part after the separator
MarketplaceUrlOfName(slug) ==
    MARKETPLACE_BASE_URL \o <<"/">> \o NameOf(Split1(slug, "/"), slug)

\* f"{MARKETPLACE_BASE_URL}/{slug}"
MarketplaceUrl(slug) == MARKETPLACE_BASE_URL \o <<"/">> \o slug

\* variant: repo.get("slug") without the default
SlugOfRequired(repo) == Get(repo.slug)

\* repo.get("slug", ""): the slug the normalizer works on
SlugOf(repo) == GetDefault(repo.slug, <<>>)

\* _parse_api_server: [ok |-> TRUE, server |-> ServerInfo] when it returns,
\* [ok |-> FALSE, exc |-> ...] when it raises.
ParseApiServer(repo) ==
    LET slugOpt == SlugOf(repo)
    IN IF IsNone(slugOpt)
       THEN \* None.split(...)
            [ok |-> FALSE, exc |-> "AttributeError"]
       ELSE
       LET slug == The(slugOpt)
           parts == Split1(slug, "/")
           publisher == PublisherOf(parts)
           name == NameOf(parts, slug)
           git_slug == Get(repo.git_slug)
           github_url == IF TruthyStr(git_slug)
                         THEN Some(GITHUB_BASE_URL \o <<"/">> \o The(git_slug))
                         ELSE None
           tagsOpt == Get(repo.tags)
           tags == IF IsNone(tagsOpt) THEN EmptyTags ELSE The(tagsOpt)
           authOpt == Get(tags.auth)
           auth_info == IF IsNone(authOpt) THEN EmptyAuth ELSE The(authOpt)
       IN [ok |-> TRUE,
           server |-> ServerInfo(name, slug, publisher,
                                 OrElse(Get(repo.description), Get(repo.subtitle)),
                                 github_url,
                                 MarketplaceUrl(slug),
                                 Get(tags.language),
                                 Get(repo.heat_score),
                                 Get(repo.upvote_count),
                                 AuthRequired(auth_info))]

\* ------------------------------------------------------ raw record inputs
SlugChars == {"a", "/"}

SlugStrings == UNION {[1..n -> SlugChars] : n \in 0..MaxSlugLen}

SlugFields == {Absent, Null} \cup {Val(s) : s \in SlugStrings}

StrFields(s) == {Absent, Null, Val(<<>>), Val(s)}

IntFields == {Absent, Null, Val(1)}

FlagMaps == {EmptyAuth} \cup
            {[api_key |-> Val(a), oauth |-> Val(o), none |-> Val(n)] :
                a \in BOOLEAN, o \in BOOLEAN, n \in BOOLEAN}

AuthFields == {Absent, Null} \cup {Val(m) : m \in FlagMaps}

LangFields == {Absent, Null, Val(<<"python">>)}

TagsFields == {Absent, Null} \cup
              {Val([auth |-> a, language |-> l]) : a \in AuthFields, l \in LangFields}

RawRecord(slug, git_slug, description, subtitle, heat_score, upvote_count, tags) ==
    [slug |-> slug, git_slug |-> git_slug, description |-> description,
     subtitle |-> subtitle, heat_score |-> heat_score,
     upvote_count |-> upvote_count, tags |-> tags]

\* a record of the shape the listing endpoint documents
TypicalRecord(slug) ==
    RawRecord(slug, Val(<<"g">>), Null, Val(<<"s">>), Val(1), Absent,
              Val([auth |-> Val([api_key |-> Val(TRUE), oauth |-> Val(FALSE),
                                 none |-> Val(FALSE)]),
                   language |-> Val(<<"python">>)]))

\* slugs every optional-field combination is tried with
ProbeSlugs == {Absent, Null, Val(<<"a">>), Val(<<"a", "/", "a">>)}

NormRecords ==
    {TypicalRecord(s) : s \in SlugFields} \cup
    {RawRecord(s, g, d, sub, h, u, t) :
        s \in ProbeSlugs, g \in StrFields(<<"g">>), d \in StrFields(<<"d">>),
        sub \in StrFields(<<"s">>), h \in IntFields, u \in IntFields,
        t \in TagsFields}

\* ------------------------------------------------------- markup extractor
\* A document is a sequence of sibling groups (the children of one parent, in
\* document order); an element is [tag, class, text].  class is the class
\* attribute as a list of class names, each a token sequence; text is a
\* character sequence.  The empty text "" is the document with no group.
UpperChars == {"A", "B", "C", "D", "E", "F", "G", "H", "I", "J", "K", "L", "M", "N", "O", "P", "Q", "R", "S", "T", "U", "V", "W", "X", "Y", "Z"}

LowerChars == {"a", "b", "c", "d", "e", "f", "g", "h", "i", "j", "k", "l", "m", "n", "o", "p", "q", "r", "s", "t", "u", "v", "w", "x", "y", "z"}

Whitespace == {" "}

RECURSIVE LStrip(_)
LStrip(s) == IF Len(s) > 0 /\ Head(s) \in Whitespace THEN LStrip(Tail(s)) ELSE s

RECURSIVE RStrip(_)
RStrip(s) ==
    IF Len(s) > 0 /\ s[Len(s)] \in Whitespace
    THEN RStrip(SubSeq(s, 1, Len(s) - 1))
    ELSE s

\* get_text(strip=True) of an element holding one text node
GetTextStrip(el) == LStrip(RStrip(el.text))

\* str.isupper: at least one cased character and no lower-case one
IsUpper(s) ==
    /\ \E i \in 1..Len(s) : s[i] \in UpperChars
    /\ \A i \in 1..Len(s) : s[i] \notin LowerChars

excluded_names ==
    {<<"T", "o", "o", "l", "s">>,
     <<"R", "e", "s", "o", "u", "r", "c", "e", "s">>,
     <<"P", "r", "o", "m", "p", "t", "s">>,
     <<"P", "r", "o", "d", "u", "c", "t">>,
     <<"C", "o", "m", "p", "a", "n", "y">>,
     <<"L", "e", "g", "a", "l">>,
     <<"D", "o", "c", "u", "m", "e", "n", "t", "a", "t", "i", "o", "n">>,
     <<"S", "u", "p", "p", "o", "r", "t">>,
     <<"C", "o", "n", "t", "a", "c", "t">>,
     <<"A", "b", "o", "u", "t">>,
     <<"B", "l", "o", "g">>,
     <<"P", "r", "i", "c", "i", "n", "g">>}

RECURSIVE JoinClasses(_)
\* " ".join(class list)
JoinClasses(cs) ==
    IF Len(cs) = 0 THEN <<>>
    ELSE IF Len(cs) = 1 THEN cs[1]
    ELSE cs[1] \o <<" ">> \o JoinClasses(Tail(cs))

\* a class_ callable that looks for "font-semibold" only
ClassFilterSemiboldOnly(c) ==
    /\ Len(c) > 0
    /\ Contains(c, <<"font-semibold">>)

\* the class_ callable: c and "font-semibold" in c and "text-lg" in c
ClassFilter(c) ==
    /\ Len(c) > 0
    /\ Contains(c, <<"font-semibold">>)
    /\ Contains(c, <<"text-lg">>)

\* how find_all applies a callable to the multi-valued class attribute: to
\* each class name, then to the names joined by spaces
ClassMatches(el) ==
    \/ \E i \in 1..Len(el.class) : ClassFilter(el.class[i])
    \/ ClassFilter(JoinClasses(el.class))

IsToolCard(el) == el.tag = "h4" /\ ClassMatches(el)

RECURSIVE NextSiblingP(_, _)
\* h4.find_next_sibling("p"): position of the first following sibling with
\* tag p, 0 if none
NextSiblingP(group, i) ==
    IF i + 1 > Len(group) THEN 0
    ELSE IF group[i + 1].tag = "p" THEN i + 1
    ELSE NextSiblingP(group, i + 1)

ToolInfo(name, description) == [name |-> name, description |-> description]

RECURSIVE ParseGroup(_, _)
\* the loop body of _parse_tools_from_html over the elements of one group,
\* from position i on
ParseGroup(group, i) ==
    IF i > Len(group) THEN <<>>
    ELSE LET h4 == group[i]
             tool_name == GetTextStrip(h4)
             p == NextSiblingP(group, i)
             description == IF p # 0 THEN Some(GetTextStrip(group[p])) ELSE None
             rest == ParseGroup(group, i + 1)
         IN IF ~IsToolCard(h4) THEN rest
            ELSE IF Len(tool_name) = 0 \/ tool_name \in excluded_names THEN rest
            ELSE IF IsUpper(tool_name) THEN rest
            ELSE <<ToolInfo(tool_name, description)>> \o rest

RECURSIVE ParseToolsFromHtml(_)
\* _parse_tools_from_html
ParseToolsFromHtml(html) ==
    IF Len(html) = 0 THEN <<>>
    ELSE ParseGroup(Head(html), 1) \o ParseToolsFromHtml(Tail(html))

Element(tag, class, text) == [tag |-> tag, class |-> class, text |-> text]

SigClasses == <<<<"text-lg">>, <<"font-semibold">>>>

FooterClasses == <<<<"text-sm">>, <<"font-semibold">>, <<"uppercase">>>>

\* detail pages the marketplace may answer with
PageWithTool ==
    <<<<Element("h4", SigClasses, <<"t", "_", "a">>),
        Element("p", <<>>, <<" ", "d", " ">>)>>,
      <<Element("h4", FooterClasses, <<"L", "e", "g", "a", "l">>)>>>>

PageWithoutTools ==
    <<<<Element("h4", SigClasses, <<"T", "o", "o", "l", "s">>),
        Element("p", <<>>, <<"d">>)>>>>

EmptyPage == <<>>

Bodies == {EmptyPage, PageWithTool, PageWithoutTools}

\* class="md:text-lg font-semibold": no class text-lg, but a class name that
\* holds it
VariantClasses == <<<<"md:", "text-lg">>, <<"font-semibold">>>>

\* the elements the documents handed to the extractor are built from
DocElements ==
    {Element("h4", SigClasses, <<" ", "t", "_", "a", " ">>),
     Element("h4", SigClasses, <<"t", "_", "b">>),
     Element("h4", SigClasses, <<"T", "o", "o", "l", "s">>),
     Element("h4", SigClasses, <<"A", "_", "B">>),
     Element("h4", SigClasses, <<" ">>),
     Element("h4", FooterClasses, <<"t", "_", "c">>),
     Element("h4", VariantClasses, <<"t", "_", "d">>),
     Element("h2", SigClasses, <<"t", "_", "e">>),
     Element("p", <<>>, <<" ", "d", " ">>),
     Element("div", <<>>, <<>>)}

Groups(n) == UNION {[1..k -> DocElements] : k \in 0..n}

\* the documents of at most MaxDocLen elements in one or two sibling groups
Docs ==
    {<<g>> : g \in Groups(MaxDocLen)} \cup
    UNION {{<<g1, g2>> : g1 \in [1..ab[1] -> DocElements],
                         g2 \in [1..ab[2] -> DocElements]} :
              ab \in {x \in (0..(MaxDocLen - 1)) \X (0..(MaxDocLen - 1)) :
                         x[1] + x[2] <= MaxDocLen}}

\* ------------------------------------------------------------ error text
\* f"Failed to fetch marketplace API: {e}"
ApiErrorText(e) == <<"Failed to fetch", " marketplace API: ", e>>

\* f"Failed to fetch {server.marketplace_url}"
FetchErrorText(url) == <<"Failed to fetch", " ">> \o url

\* f"Error processing {server.slug}: {e}"
ProcessErrorText(slug, e) == <<"Error processing", " ">> \o slug \o <<": ", e>>

\* --------------------------------------------------------- detail fetcher
\* What the network (and the markup library) does for one detail GET:
\*   ok           success status, body delivered
\*   transport    session.get raises a requests.RequestException (connection
\*                error, timeout)
\*   http_error   raise_for_status raises requests.HTTPError (non-success status)
\*   unexpected   session.get raises something that is no RequestException
\*   parse_raises success status, body delivered, the markup library raises
RequestExceptionKinds == {"transport", "http_error"}

Outcome(kind, body) == [kind |-> kind, body |-> body]

Outcomes ==
    {Outcome("ok", b) : b \in Bodies} \cup
    {Outcome(k, EmptyPage) : k \in RequestExceptionKinds} \cup
    {Outcome("unexpected", EmptyPage), Outcome("parse_raises", PageWithTool)}

\* _fetch_detail_page: [raised, html]; html is None after a RequestException
FetchDetailPage(outcome) ==
    IF outcome.kind \in RequestExceptionKinds
    THEN [raised |-> FALSE, html |-> None]
    ELSE IF outcome.kind = "unexpected"
    THEN [raised |-> TRUE, html |-> None]
    ELSE [raised |-> FALSE, html |-> Some(outcome.body)]

\* the tuple fetch_tools returns, or the exception it lets escape
TaskResult(server, tools, error) ==
    [server |-> server, tools |-> tools, error |-> error, raised |-> FALSE]

TaskRaised(server) ==
    [server |-> server, tools |-> None, error |-> None, raised |-> TRUE]

\* "if html:" in fetch_tools: None and "" are falsy
HtmlTruthy(html) == ~IsNone(html) /\ Len(The(html)) > 0

\* variant: fetch_tools without its "except Exception"
FetchToolsUncaught(i, server, outcome) ==
    LET page == FetchDetailPage(outcome)
    IN IF page.raised \/ outcome.kind = "parse_raises"
       THEN TaskRaised(i)
       ELSE IF HtmlTruthy(page.html)
       THEN TaskResult(i, Some(ParseToolsFromHtml(The(page.html))), None)
       ELSE TaskResult(i, None, Some(FetchErrorText(server.marketplace_url)))

\* fetch_tools(server); i is the position of the server object in the list
FetchTools(i, server, outcome) ==
    LET page == FetchDetailPage(outcome)
    IN IF page.raised
       THEN TaskResult(i, None, Some(ProcessErrorText(server.slug, outcome.kind)))
       ELSE IF HtmlTruthy(page.html)
       THEN IF outcome.kind = "parse_raises"
            THEN TaskResult(i, None, Some(ProcessErrorText(server.slug, outcome.kind)))
            ELSE TaskResult(i, Some(ParseToolsFromHtml(The(page.html))), None)
       ELSE TaskResult(i, None, Some(FetchErrorText(server.marketplace_url)))

\* variant: the tools go to the first server instead of the result's own
AssignToolsFirst(servs, res) == [servs EXCEPT ![1].tools = The(res.tools)]

\* "server.tools = tools" on the server object the result carries
AssignTools(servs, res) == [servs EXCEPT ![res.server].tools = The(res.tools)]

\* variant: a GET that is sent a second time
IssueGetRetry(reqs, url) == reqs (+) SetToBag({url}) (+) SetToBag({url})

\* session.get(url): one more request on the wire
IssueGet(reqs, url) == reqs (+) SetToBag({url})

\* --------------------------------------------------------- scan results
ScanResult(total_servers, servs, errs) ==
    [total_servers |-> total_servers, servers |-> servs, errors |-> errs]

\* variant: the except branch forgets the error string
BulkFailureResultNoError(e) == ScanResult(0, <<>>, <<>>)

\* the ScanResult of the except branch of scan_marketplace_sync
BulkFailureResult(e) == ScanResult(0, <<>>, <<ApiErrorText(e)>>)

\* variant: total_servers counts only the servers without an error
FinalResultCountEnriched(servs, errs) ==
    ScanResult(Len(servs) - Len(errs), servs, errs)

\* the ScanResult of the final return of scan_marketplace_sync
FinalResult(servs, errs) == ScanResult(Len(servs), servs, errs)

\* variant: "if servers:"
ShouldEnrichAlways(incl, servs) == Len(servs) > 0

\* "if include_tools and servers:"
ShouldEnrich(incl, servs) == incl /\ Len(servs) > 0

\* ------------------------------------------------------- listing inputs
ScanSlugs == {Absent, Null, Val(<<"a">>), Val(<<"a", "/", "a">>)}

ScanRecords == {TypicalRecord(s) : s \in ScanSlugs}

\* the JSON object of the listing endpoint: the repositories key may be missing
ListingData ==
    {[repositories |-> Absent]} \cup
    {[repositories |-> Val(l)] :
        l \in UNION {[1..n -> ScanRecords] : n \in 0..MaxServers}}

\* data.get("repositories", [])
RepositoriesOf(d) == The(GetDefault(d.repositories, <<>>))

\* ------------------------------------------------------------- the state
VARIABLES
    caller,        \* "scan": scan_marketplace_sync was called; "direct":
                   \* _enrich_with_tools was called on its own
    pc,            \* position of the calling thread
    include_tools, \* the argument of the call
    api_exc,       \* the RequestException the listing fetch raised (None if none)
    data,          \* the listing JSON, once fetched
    servers,       \* the list of ServerInfo objects
    errors,        \* the errors list of scan_marketplace_sync
    tool_errors,   \* the errors list of _enrich_with_tools
    max_workers,   \* width of the thread pool
    task,          \* per entry: new, queued, running, done, applied
    resp,          \* per entry: what the detail GET met (None before)
    fut,           \* per entry: the result of its future (None before)
    requests,      \* bag of the URLs a GET was issued to
    result,        \* what the call returned (None before, and when it raised)
    nrepo,         \* a raw record handed to _parse_api_server on its own
    nout,          \* what that call produced (None before)
    hdoc,          \* a document handed to _parse_tools_from_html on its own
    hout           \* what that call returned (None before)

vars == <<caller, pc, include_tools, api_exc, data, servers, errors, tool_errors, max_workers,
          task, resp, fut, requests, result, nrepo, nout, hdoc, hout>>

N == Len(servers)

Running == {i \in 1..Len(task) : task[i] = "running"}

Queued == {i \in 1..Len(task) : task[i] = "queued"}

\* the lists of ServerInfo objects a caller can hand to _enrich_with_tools
ServerLists ==
    {[i \in 1..Len(l) |-> ParseApiServer(l[i]).server] :
        l \in {r \in UNION {[1..n -> ScanRecords] : n \in 0..MaxServers} :
                  \A i \in 1..Len(r) : ParseApiServer(r[i]).ok}}

\* the pool widths _enrich_with_tools is called with on its own
DirectWidths == {1, MAX_WORKERS}

\* scan_marketplace_sync(include_tools)
InitScan ==
    /\ caller = "scan"
    /\ pc = "start"
    /\ include_tools \in BOOLEAN
    /\ servers = <<>>
    /\ max_workers = MAX_WORKERS

\* _enrich_with_tools(session, servers, max_workers)
InitDirect ==
    /\ caller = "direct"
    /\ pc = "enrich_call"
    /\ include_tools = TRUE
    /\ servers \in ServerLists
    /\ max_workers \in DirectWidths

Init ==
    /\ (InitScan \/ InitDirect)
    /\ api_exc = None
    /\ data = None
    /\ errors = <<>>
    /\ tool_errors = <<>>
    /\ task = <<>>
    /\ resp = <<>>
    /\ fut = <<>>
    /\ requests = EmptyBag
    /\ result = None
    /\ nrepo = TypicalRecord(Absent)
    /\ nout = None
    /\ hdoc = EmptyPage
    /\ hout = None

\* _fetch_api_data: the listing GET goes out
ScanStart ==
    /\ pc = "start"
    /\ requests' = IssueGet(requests, MARKETPLACE_API_URL)
    /\ pc' = "api_wait"
    /\ UNCHANGED <<caller, include_tools, api_exc, data, servers, errors,
                   tool_errors, max_workers, task, resp, fut, result, nrepo,
                   nout, hdoc, hout>>

\* _fetch_api_data raises a RequestException (session.get or raise_for_status)
ApiFail ==
    /\ pc = "api_wait"
    /\ \E e \in RequestExceptionKinds : api_exc' = Some(e)
    /\ pc' = "api_failed"
    /\ UNCHANGED <<caller, include_tools, data, servers, errors, tool_errors,
                   max_workers, task, resp, fut, requests, result, nrepo, nout,
                   hdoc, hout>>

\* "except requests.RequestException as e: return ScanResult(...)"
ApiExcept ==
    /\ pc = "api_failed"
    /\ result' = Some(BulkFailureResult(The(api_exc)))
    /\ pc' = "returned"
    /\ UNCHANGED <<caller, include_tools, api_exc, data, servers, errors,
                   tool_errors, max_workers, task, resp, fut, requests, nrepo,
                   nout, hdoc, hout>>

\* the listing GET succeeds and response.json() is the listing
ApiOk ==
    /\ pc = "api_wait"
    /\ \E d \in ListingData : data' = Some(d)
    /\ pc' = "normalize"
    /\ UNCHANGED <<caller, include_tools, api_exc, servers, errors, tool_errors,
                   max_workers, task, resp, fut, requests, result, nrepo, nout,
                   hdoc, hout>>

\* servers = [_parse_api_server(repo) for repo in repositories]
Normalize ==
    /\ pc = "normalize"
    /\ LET repositories == RepositoriesOf(The(data))
           parsed == [i \in 1..Len(repositories) |-> ParseApiServer(repositories[i])]
       IN IF \A i \in 1..Len(parsed) : parsed[i].ok
          THEN /\ servers' = [i \in 1..Len(parsed) |-> parsed[i].server]
               /\ pc' = "normalized"
          ELSE /\ servers' = servers
               /\ pc' = "raised"
    /\ UNCHANGED <<caller, include_tools, api_exc, data, errors, tool_errors,
                   max_workers, task, resp, fut, requests, result, nrepo, nout,
                   hdoc, hout>>

\* include_tools and servers: _enrich_with_tools is entered
EnrichBegin ==
    /\ \/ pc = "normalized" /\ ShouldEnrich(include_tools, servers)
       \/ pc = "enrich_call"
    /\ tool_errors' = <<>>
    /\ task' = [i \in 1..N |-> "new"]
    /\ resp' = [i \in 1..N |-> None]
    /\ fut' = [i \in 1..N |-> None]
    /\ pc' = IF N = 0 THEN "collect" ELSE "submit"
    /\ UNCHANGED <<caller, include_tools, api_exc, data, servers, errors,
                   max_workers, requests, result, nrepo, nout, hdoc, hout>>

\* otherwise the enrichment is skipped
EnrichSkip ==
    /\ pc = "normalized"
    /\ ~ShouldEnrich(include_tools, servers)
    /\ pc' = "finish"
    /\ UNCHANGED <<caller, include_tools, api_exc, data, servers, errors,
                   tool_errors, max_workers, task, resp, fut, requests, result,
                   nrepo, nout, hdoc, hout>>

\* executor.submit(fetch_tools, server), for the servers in list order
Submit ==
    /\ pc = "submit"
    /\ \E i \in 1..N :
          /\ task[i] = "new"
          /\ \A j \in 1..(i - 1) : task[j] # "new"
          /\ task' = [task EXCEPT ![i] = "queued"]
          /\ pc' = IF i = N THEN "collect" ELSE "submit"
    /\ UNCHANGED <<caller, include_tools, api_exc, data, servers, errors,
                   tool_errors, max_workers, resp, fut, requests, result, nrepo,
                   nout, hdoc, hout>>

\* variant: a pool that starts a thread for every queued work item
CanStartUnbounded(running, width) == TRUE

\* variant: a pool that keeps one of its threads idle
CanStartSpare(running, width) == Cardinality(running) + 1 < width

\* ThreadPoolExecutor(max_workers=width): a queued work item is taken only
\* while fewer than width threads are busy
CanStart(running, width) == Cardinality(running) < width

\* a pool thread takes the oldest queued work item and issues its detail GET
WorkerStart ==
    /\ \E i \in Queued :
          /\ \A j \in Queued : i <= j
          /\ CanStart(Running, max_workers)
          /\ task' = [task EXCEPT ![i] = "running"]
          /\ requests' = IssueGet(requests, servers[i].marketplace_url)
    /\ UNCHANGED <<caller, pc, include_tools, api_exc, data, servers, errors,
                   tool_errors, max_workers, resp, fut, result, nrepo, nout,
                   hdoc, hout>>

\* the GET of a running work item ends and fetch_tools runs to its end
WorkerFinish ==
    /\ \E i \in Running, o \in Outcomes :
          /\ resp' = [resp EXCEPT ![i] = Some(o)]
          /\ fut' = [fut EXCEPT ![i] = Some(FetchTools(i, servers[i], o))]
          /\ task' = [task EXCEPT ![i] = "done"]
    /\ UNCHANGED <<caller, pc, include_tools, api_exc, data, servers, errors,
                   tool_errors, max_workers, requests, result, nrepo, nout,
                   hdoc, hout>>

\* variant: an accumulator that keeps the last error only
AppendErrorLast(errs, error) == <<error>>

\* errors.append(error)
AppendError(errs, error) == Append(errs, error)

\* one round of "for future in as_completed(futures)"
Collect ==
    /\ pc = "collect"
    /\ \E i \in 1..N :
          /\ task[i] = "done"
          /\ LET res == The(fut[i])
             IN IF res.raised
                THEN \* future.result() re-raises
                     /\ pc' = "raised"
                     /\ UNCHANGED <<tool_errors, servers>>
                ELSE IF ~IsNone(res.error)
                THEN /\ tool_errors' = AppendError(tool_errors, The(res.error))
                     /\ UNCHANGED <<pc, servers>>
                ELSE IF ~IsNone(res.tools)
                THEN /\ servers' = AssignTools(servers, res)
                     /\ UNCHANGED <<pc, tool_errors>>
                ELSE UNCHANGED <<pc, tool_errors, servers>>
          /\ task' = [task EXCEPT ![i] = "applied"]
    /\ UNCHANGED <<caller, include_tools, api_exc, data, errors, max_workers,
                   resp, fut, requests, result, nrepo, nout, hdoc, hout>>

\* variant: a loop that ends as soon as no completed future is waiting
AllCollectedSoFar(t) == \A i \in 1..Len(t) : t[i] # "done"

\* as_completed(futures) is exhausted: every future was yielded and handled
AllCollected(t) == \A i \in 1..Len(t) : t[i] = "applied"

\* every future was yielded: the pool shuts down and _enrich_with_tools
\* returns its errors
EnrichReturn ==
    /\ pc = "collect"
    /\ AllCollected(task)
    /\ pc' = "enriched"
    /\ UNCHANGED <<caller, include_tools, api_exc, data, servers, errors,
                   tool_errors, max_workers, task, resp, fut, requests, result,
                   nrepo, nout, hdoc, hout>>

\* errors.extend(tool_errors)
ExtendErrors ==
    /\ caller = "scan"
    /\ pc = "enriched"
    /\ errors' = errors \o tool_errors
    /\ pc' = "finish"
    /\ UNCHANGED <<caller, include_tools, api_exc, data, servers, tool_errors,
                   max_workers, task, resp, fut, requests, result, nrepo, nout,
                   hdoc, hout>>

\* return ScanResult(total_servers=len(servers), servers=servers, errors=errors)
ScanReturn ==
    /\ pc = "finish"
    /\ result' = Some(FinalResult(servers, errors))
    /\ pc' = "returned"
    /\ UNCHANGED <<caller, include_tools, api_exc, data, servers, errors,
                   tool_errors, max_workers, task, resp, fut, requests, nrepo,
                   nout, hdoc, hout>>

Next ==
    \/ ScanStart
    \/ ApiFail
    \/ ApiExcept
    \/ ApiOk
    \/ Normalize
    \/ EnrichBegin
    \/ EnrichSkip
    \/ Submit
    \/ WorkerStart
    \/ WorkerFinish
    \/ Collect
    \/ EnrichReturn
    \/ ExtendErrors
    \/ ScanReturn

Spec == Init /\ [][Next]_vars

\* the run under fair scheduling: the coordinating thread keeps going
\* (Submit, Collect, EnrichReturn and the steps of scan_marketplace_sync),
\* an idle pool thread takes queued work, and every GET ends (REQUEST_TIMEOUT)
SpecLive ==
    /\ Init /\ [][Next]_vars
    /\ WF_vars(ScanStart) /\ WF_vars(ApiFail \/ ApiOk) /\ WF_vars(ApiExcept)
    /\ WF_vars(Normalize) /\ WF_vars(EnrichBegin) /\ WF_vars(EnrichSkip)
    /\ WF_vars(Submit) /\ WF_vars(WorkerStart) /\ WF_vars(WorkerFinish)
    /\ WF_vars(Collect) /\ WF_vars(EnrichReturn)
    /\ WF_vars(ExtendErrors) /\ WF_vars(ScanReturn)

\* ------------------------------------------- the normalizer on its own
InitNorm ==
    /\ caller = "normalizer"
    /\ pc = "norm_call"
    /\ include_tools = FALSE
    /\ api_exc = None
    /\ data = None
    /\ servers = <<>>
    /\ errors = <<>>
    /\ tool_errors = <<>>
    /\ max_workers = MAX_WORKERS
    /\ task = <<>>
    /\ resp = <<>>
    /\ fut = <<>>
    /\ requests = EmptyBag
    /\ result = None
    /\ nrepo \in NormRecords
    /\ nout = None
    /\ hdoc = EmptyPage
    /\ hout = None

\* _parse_api_server(nrepo)
NormCall ==
    /\ pc = "norm_call"
    /\ nout' = Some(ParseApiServer(nrepo))
    /\ pc' = "norm_done"
    /\ UNCHANGED <<caller, include_tools, api_exc, data, servers, errors,
                   tool_errors, max_workers, task, resp, fut, requests, result,
                   nrepo, hdoc, hout>>

NextNorm == NormCall

SpecNorm == InitNorm /\ [][NextNorm]_vars

\* -------------------------------------------- the extractor on its own
InitHtml ==
    /\ caller = "extractor"
    /\ pc = "html_call"
    /\ include_tools = FALSE
    /\ api_exc = None
    /\ data = None
    /\ servers = <<>>
    /\ errors = <<>>
    /\ tool_errors = <<>>
    /\ max_workers = MAX_WORKERS
    /\ task = <<>>
    /\ resp = <<>>
    /\ fut = <<>>
    /\ requests = EmptyBag
    /\ result = None
    /\ nrepo = TypicalRecord(Absent)
    /\ nout = None
    /\ hdoc \in Docs
    /\ hout = None

\* _parse_tools_from_html(hdoc)
HtmlCall ==
    /\ pc = "html_call"
    /\ hout' = Some(ParseToolsFromHtml(hdoc))
    /\ pc' = "html_done"
    /\ UNCHANGED <<caller, include_tools, api_exc, data, servers, errors,
                   tool_errors, max_workers, task, resp, fut, requests, result,
                   nrepo, nout, hdoc>>

NextHtml == HtmlCall

SpecHtml == InitHtml /\ [][NextHtml]_vars

\* ------------------- every entry point: the scan, the enrichment, the normalizer
InitAll == Init \/ InitNorm

NextAll == Next \/ NextNorm

SpecAll == InitAll /\ [][NextAll]_vars

\* ================================================================ claims
\* the detail fetch of entry i met a failure (no success status and body, or
\* an exception while fetching or parsing)
Failed(i) == ~IsNone(resp[i]) /\ The(resp[i]).kind # "ok"

\* error string e names the server: its slug or its listing URL
Refers(e, server) == Contains(e, server.slug) \/ Contains(e, server.marketplace_url)

\* what extracting from the page entry i's own GET received yields
ExpectedTools(i) ==
    IF ~IsNone(resp[i]) /\ The(resp[i]).kind = "ok"
    THEN ParseToolsFromHtml(The(resp[i]).body)
    ELSE <<>>

\* the listing was fetched and normalized without an exception
Normalized ==
    /\ caller = "scan"
    /\ ~IsNone(data)
    /\ pc \in {"normalized", "submit", "collect", "enriched", "finish", "returned"}

\* C1: when the listing request fails, scan_marketplace_sync returns (never
\* raises) a ScanResult with total_servers = 0, no servers and exactly one
\* error containing "Failed to fetch"; nothing is normalized and no detail
\* request is issued, whatever include_tools is.
C1_BulkFailure ==
    (caller = "scan" /\ ~IsNone(api_exc)) =>
        /\ pc \in {"api_failed", "returned"}
        /\ IsNone(data) /\ servers = <<>> /\ task = <<>>
        /\ requests = SetToBag({MARKETPLACE_API_URL})
        /\ pc = "api_failed" => (IsNone(result) /\ ENABLED ApiExcept)
        /\ pc = "returned" =>
              /\ ~IsNone(result)
              /\ The(result).total_servers = 0
              /\ The(result).servers = <<>>
              /\ Len(The(result).errors) = 1
              /\ Contains(The(result).errors[1], <<"Failed to fetch">>)

C1_Witness ==
    /\ caller = "scan" /\ pc = "returned" /\ include_tools
    /\ api_exc = Some("http_error")
    /\ Len(The(result).errors) = 1

\* C2: when _enrich_with_tools returns, it returns exactly one error string
\* per entry whose fetch failed or whose processing raised, each naming that
\* entry; those entries keep tools = [], every other entry has the tools
\* extracted from its page, and the list still has its N entries.
C2_FailureIsolation ==
    pc = "enriched" =>
        LET F == {i \in 1..N : Failed(i)}
        IN /\ Len(tool_errors) = Cardinality(F)
           /\ \E f \in [1..Len(tool_errors) -> F] :
                 /\ \A j, k \in 1..Len(tool_errors) : f[j] = f[k] => j = k
                 /\ \A k \in 1..Len(tool_errors) : Refers(tool_errors[k], servers[f[k]])
           /\ \A i \in F : servers[i].tools = <<>>
           /\ \A i \in (1..N) \ F :
                 servers[i].tools = ParseToolsFromHtml(The(resp[i]).body)
           /\ N = Len(task)

\* C3: when the result of an entry whose detail fetch succeeded (any body,
\* the empty one included) is collected, the entry's tools become what the
\* extractor yields on that body and no error string is appended.
C3_SuccessPath ==
    [][\A i \in 1..Len(task) :
          (task[i] = "done" /\ pc = "collect" /\ task'[i] = "applied"
              /\ The(resp[i]).kind = "ok")
          => /\ tool_errors' = tool_errors
             /\ servers'[i].tools = ParseToolsFromHtml(The(resp[i]).body)]_vars

\* C4: in every completion order, entry i stays the normalization of raw
\* record i, an entry's tools are empty until its own result is collected and
\* then those extracted from the page its own GET received, and the returned
\* ScanResult holds the entries in listing order.
C4_OrderPreserved ==
    /\ \A i \in 1..Len(task) :
          servers[i].tools = IF task[i] = "applied" THEN ExpectedTools(i) ELSE <<>>
    /\ Normalized =>
          LET repositories == RepositoriesOf(The(data))
          IN /\ Len(servers) = Len(repositories)
             /\ \A i \in 1..Len(servers) :
                   [servers[i] EXCEPT !.tools = <<>>] =
                       ParseApiServer(repositories[i]).server
    /\ (Normalized /\ pc = "returned") => The(result).servers = servers

C4_Witness ==
    /\ caller = "scan" /\ pc = "collect" /\ N = 2
    /\ task = <<"running", "applied">>
    /\ Len(servers[2].tools) > 0
    /\ servers[1].slug # servers[2].slug

\* C5: one enrichment run submits one work item per entry and issues exactly
\* one GET per started entry, to that entry's listing URL: no entry is
\* skipped, no GET is repeated, also for failing entries and equal slugs.
C5_ExactlyOnce ==
    LET started == {i \in 1..Len(task) : task[i] \in {"running", "done", "applied"}}
        api(u) == IF caller = "scan" /\ pc # "start" /\ u = MARKETPLACE_API_URL
                  THEN 1 ELSE 0
        urls == BagToSet(requests) \cup {MARKETPLACE_API_URL}
                \cup {servers[i].marketplace_url : i \in 1..Len(task)}
    IN /\ \A u \in urls :
             CopiesIn(u, requests) =
                 Cardinality({i \in started : servers[i].marketplace_url = u}) + api(u)
       /\ pc \in {"collect", "enriched"} =>
             (Len(task) = N /\ \A i \in 1..N : task[i] # "new")
       /\ pc = "enriched" => \A i \in 1..N : task[i] = "applied"

C5_Witness ==
    /\ pc = "enriched" /\ N = 2
    /\ servers[1].slug = servers[2].slug
    /\ Failed(1) /\ ~Failed(2)
    /\ CopiesIn(servers[1].marketplace_url, requests) = 2

\* C6: every ScanResult scan_marketplace_sync returns has
\* total_servers = len(servers).
C6_TotalMatches ==
    ~IsNone(result) => The(result).total_servers = Len(The(result).servers)

C6_Witness ==
    /\ pc = "returned" /\ ~IsNone(result)
    /\ Len(The(result).servers) = 2
    /\ Len(The(result).errors) = 1

\* C7: once enrichment has begun inside a scan with include_tools, the scan
\* never raises: it returns a ScanResult, and every entry whose fetch or
\* extraction failed is named by an error string of the result.
C7_NoEscape ==
    (caller = "scan" /\ include_tools /\ Len(task) > 0) =>
        /\ pc # "raised"
        /\ \A i \in 1..Len(fut) : ~IsNone(fut[i]) => ~The(fut[i]).raised
        /\ pc = "returned" =>
              /\ ~IsNone(result)
              /\ Len(The(result).errors) >= Cardinality({i \in 1..N : Failed(i)})
              /\ \A i \in 1..N :
                    Failed(i) =>
                        \E k \in 1..Len(The(result).errors) :
                            Refers(The(result).errors[k], servers[i])

C7_Witness ==
    /\ caller = "scan" /\ pc = "returned" /\ include_tools /\ N = 2
    /\ The(resp[1]).kind = "unexpected"
    /\ The(resp[2]).kind = "parse_raises"
    /\ Len(The(result).errors) = 2

\* C8: a scan with include_tools false, or whose listing is empty, never
\* enters the enrichment: the listing GET is its only request, every entry
\* has tools = [] and errors = [].
C8_EnrichOnlyWhenAsked ==
    (Normalized /\ (~include_tools \/ Len(servers) = 0)) =>
        /\ task = <<>>
        /\ requests = SetToBag({MARKETPLACE_API_URL})
        /\ \A i \in 1..Len(servers) : servers[i].tools = <<>>
        /\ errors = <<>>
        /\ pc = "returned" =>
              /\ The(result).errors = <<>>
              /\ The(result).servers = servers

C8_Witness ==
    /\ caller = "scan" /\ pc = "returned" /\ ~include_tools
    /\ Len(The(result).servers) = 2

\* C9: a raw record whose slug holds no "/" is normalized to
\* publisher = "unknown" and name = the whole slug.
C9_NoSeparator ==
    (~IsNone(nout) /\ nrepo.slug.k = "val"
        /\ FirstIndex(nrepo.slug.v, "/", 1) = 0) =>
        /\ The(nout).ok
        /\ The(nout).server.publisher = <<"unknown">>
        /\ The(nout).server.name = nrepo.slug.v

NonEmpty(f) == f.k = "val" /\ Len(f.v) > 0

\* C11: the normalized description is the description field if it is
\* non-empty, else the subtitle field if it is non-empty, else None (never
\* the empty string), whatever combination of absent, null, empty and
\* non-empty the two fields are.
C11_DescriptionFallback ==
    (~IsNone(nout) /\ The(nout).ok) =>
        The(nout).server.description =
            IF NonEmpty(nrepo.description) THEN Some(nrepo.description.v)
            ELSE IF NonEmpty(nrepo.subtitle) THEN Some(nrepo.subtitle.v)
            ELSE None

\* flag name of tags.auth is present and true in the raw record
AuthFlag(repo, name) ==
    /\ repo.tags.k = "val"
    /\ repo.tags.v.auth.k = "val"
    /\ LET f == repo.tags.v.auth.v[name] IN f.k = "val" /\ f.v = TRUE

\* C12: auth_required is "api_key" if tags.auth.api_key is true, else
\* "oauth" if oauth is true, else "none" if none is true, else None, for every
\* combination of the three flags and for an absent, null or empty tags or
\* auth mapping.
C12_AuthMode ==
    (~IsNone(nout) /\ The(nout).ok) =>
        The(nout).server.auth_required =
            IF AuthFlag(nrepo, "api_key") THEN Some("api_key")
            ELSE IF AuthFlag(nrepo, "oauth") THEN Some("oauth")
            ELSE IF AuthFlag(nrepo, "none") THEN Some("none")
            ELSE None

C12_Witness ==
    /\ ~IsNone(nout) /\ The(nout).ok
    /\ AuthFlag(nrepo, "api_key") /\ AuthFlag(nrepo, "oauth") /\ AuthFlag(nrepo, "none")
    /\ The(nout).server.auth_required = Some("api_key")

\* C13: for a slug holding a "/", publisher + "/" + name = slug, publisher is
\* the part before the first "/" (it holds none) and name is all the rest.
C13_SlugRoundTrip ==
    (~IsNone(nout) /\ nrepo.slug.k = "val"
        /\ FirstIndex(nrepo.slug.v, "/", 1) # 0) =>
        LET sv == The(nout).server
        IN /\ The(nout).ok
           /\ sv.publisher \o <<"/">> \o sv.name = nrepo.slug.v
           /\ \A i \in 1..Len(sv.publisher) : sv.publisher[i] # "/"

C13_Witness ==
    /\ ~IsNone(nout) /\ The(nout).ok
    /\ nrepo.slug = Val(<<"a", "/", "/">>)
    /\ The(nout).server.publisher = <<"a">>
    /\ The(nout).server.name = <<"/">>

\* marketplace_url of a server is MARKETPLACE_BASE_URL + "/" + its slug
UrlOfSlug(server) ==
    server.marketplace_url = MARKETPLACE_BASE_URL \o <<"/">> \o server.slug

\* C14: marketplace_url = MARKETPLACE_BASE_URL + "/" + slug for the entry
\* of every raw record, for every entry of the servers list and of every
\* ScanResult, before and after the enrichment; and once the entries exist
\* no step changes any field of an entry other than its tools.
C14_ListingUrl ==
    /\ [](/\ (~IsNone(nout) /\ The(nout).ok) =>
                (/\ UrlOfSlug(The(nout).server)
                 /\ The(nout).server.slug = The(GetDefault(nrepo.slug, <<>>)))
          /\ \A i \in 1..Len(servers) : UrlOfSlug(servers[i])
          /\ ~IsNone(result) =>
                \A i \in 1..Len(The(result).servers) :
                    UrlOfSlug(The(result).servers[i]))
    /\ [][Len(servers) > 0 =>
             /\ Len(servers') = Len(servers)
             /\ \A i \in 1..Len(servers) :
                   [servers'[i] EXCEPT !.tools = <<>>] =
                       [servers[i] EXCEPT !.tools = <<>>]]_vars

C14_Witness ==
    /\ caller = "scan" /\ pc = "returned" /\ include_tools
    /\ Len(The(result).servers) = 2
    /\ Len(The(result).servers[2].tools) > 0
    /\ The(result).servers[2].slug = <<"a", "/", "a">>

RECURSIVE Flatten(_)
\* the elements of a document in document order
Flatten(doc) == IF Len(doc) = 0 THEN <<>> ELSE Head(doc) \o Flatten(Tail(doc))

\* the element carries class name c
HasClass(el, c) == \E i \in 1..Len(el.class) : el.class[i] = c

\* the three rejection rules on the trimmed text of a heading
NameAccepted(el) ==
    /\ Len(GetTextStrip(el)) > 0
    /\ GetTextStrip(el) \notin excluded_names
    /\ ~IsUpper(GetTextStrip(el))

\* an h4 heading whose class attribute, its names joined by spaces, holds
\* both "text-lg" and "font-semibold" as substrings, and passes the rules
QualifiesBySubstring(el) ==
    /\ el.tag = "h4"
    /\ Contains(JoinClasses(el.class), <<"text-lg">>)
    /\ Contains(JoinClasses(el.class), <<"font-semibold">>)
    /\ NameAccepted(el)

\* the names of the returned descriptors, in order
NamesOf(tools) == [k \in 1..Len(tools) |-> tools[k].name]

\* C15 as claimed: the output holds, in document order, exactly one
\* descriptor per h4 heading that carries both classes text-lg and
\* font-semibold and whose trimmed text is non-empty, not excluded and not
\* upper-case; every other heading contributes nothing.
C15_SelectionByClass ==
    ~IsNone(hout) =>
        LET QualifiesByClass(el) ==
                /\ el.tag = "h4"
                /\ HasClass(el, <<"text-lg">>)
                /\ HasClass(el, <<"font-semibold">>)
                /\ NameAccepted(el)
            picked == SelectSeq(Flatten(hdoc), QualifiesByClass)
        IN NamesOf(The(hout)) = [k \in 1..Len(picked) |-> GetTextStrip(picked[k])]

\* C15 as amended: the same, for the h4 headings whose class attribute (the
\* class names joined by spaces) contains both "text-lg" and "font-semibold"
\* as substrings.
C15_SelectionBySubstring ==
    ~IsNone(hout) =>
        LET picked == SelectSeq(Flatten(hdoc), QualifiesBySubstring)
        IN NamesOf(The(hout)) = [k \in 1..Len(picked) |-> GetTextStrip(picked[k])]

C15_Witness ==
    /\ ~IsNone(hout)
    /\ Len(hdoc) = 2 /\ Len(hdoc[1]) = 2 /\ Len(hdoc[2]) = 1
    /\ hdoc[1][1].text = <<"T", "o", "o", "l", "s">>
    /\ hdoc[1][2].class = VariantClasses
    /\ hdoc[2][1].text = <<" ", "t", "_", "a", " ">>
    /\ NamesOf(The(hout)) = <<<<"t", "_", "d">>, <<"t", "_", "a">>>>

\* every element of the document paired with its next sibling: the element
\* right after it in its group, None for the last of a group
WithNextSibling(doc) ==
    [g \in 1..Len(doc) |->
        [i \in 1..Len(doc[g]) |->
            [el |-> doc[g][i],
             next |-> IF i < Len(doc[g]) THEN Some(doc[g][i + 1]) ELSE None]]]

\* C16: the description of every accepted heading is the trimmed text of the
\* paragraph that is its immediately following sibling, and None when the
\* element right after the heading is no paragraph or there is none; a
\* paragraph behind another sibling is not used.
C16_AdjacentParagraph ==
    ~IsNone(hout) =>
        LET Accepted(x) == QualifiesBySubstring(x.el)
            picked == SelectSeq(Flatten(WithNextSibling(hdoc)), Accepted)
            Adjacent(x) ==
                IF ~IsNone(x.next) /\ The(x.next).tag = "p"
                THEN Some(GetTextStrip(The(x.next)))
                ELSE None
        IN The(hout) = [k \in 1..Len(picked) |->
                           ToolInfo(GetTextStrip(picked[k].el), Adjacent(picked[k]))]

\* _enrich_with_tools has returned (scan_marketplace_sync goes on or is done)
Returned == pc \in {"enriched", "finish", "returned"}

\* every work item of the run has had its result handled
EveryApplied == \A i \in 1..Len(task) : task[i] = "applied"

\* an enrichment run is under way or over with its work items laid out
InRun == Len(task) = N /\ pc \in {"submit", "collect", "enriched", "finish", "returned"}

\* C17: at no time are more detail fetches in flight than the pool width,
\* also with more entries than workers, and a queued entry starts only in a
\* step that finds a worker free.
C17_BoundedConcurrency ==
    /\ [](Cardinality(Running) <= max_workers)
    /\ [][\A i \in 1..Len(task) :
              (Len(task') = Len(task) /\ task[i] = "queued" /\ task'[i] = "running")
                  => Cardinality(Running) < max_workers]_vars

C17_Witness ==
    /\ max_workers = 1 /\ N = 2
    /\ task = <<"running", "queued">>
    /\ pc = "collect"

\* C18: _enrich_with_tools returns only when every work item has completed
\* and was applied; after it no worker runs and neither an entry's tools nor
\* the tool error list changes, and after scan_marketplace_sync returned
\* the errors list does not change either; an entry's tools are written only
\* in the one step that applies its result, with the whole extracted list.
C18_JoinBarrier ==
    /\ [](Returned => EveryApplied /\ Running = {} /\ Queued = {})
    /\ [][Returned => servers' = servers /\ tool_errors' = tool_errors]_vars
    /\ [][pc = "returned" => errors' = errors /\ result' = result]_vars
    /\ [][InRun =>
            \A i \in 1..N :
               /\ task[i] = "applied" => task'[i] = "applied"
               /\ servers'[i].tools # servers[i].tools =>
                     /\ task[i] = "done" /\ task'[i] = "applied"
                     /\ servers'[i].tools = ExpectedTools(i)]_vars

C18_Witness ==
    /\ caller = "scan" /\ pc = "returned" /\ N = 2
    /\ EveryApplied
    /\ Len(servers[1].tools) > 0
    /\ Failed(2)

\* C19: under fair scheduling, with every GET ending, a run that has begun
\* returns with every result applied, whatever the outcomes and the pool
\* width; every submitted entry is fetched and applied, whatever happens
\* to the others.
C19_BatchLiveness ==
    /\ (pc \in {"submit", "collect"}) ~> (Returned /\ EveryApplied)
    /\ \A i \in 1..MaxServers :
          (InRun /\ i <= N /\ task[i] # "applied")
              ~> (InRun /\ i <= N /\ task[i] = "applied" /\ ~IsNone(resp[i]))

C19_Witness ==
    /\ max_workers = 1 /\ N = 2 /\ pc = "enriched"
    /\ EveryApplied
    /\ Failed(1) /\ ~Failed(2)
    /\ Len(servers[2].tools) > 0

\* number of positions of sequence q that hold e
Count(q, e) == Cardinality({k \in 1..Len(q) : q[k] = e})

\* C20: a worker's steps write neither an entry nor the error list; the step
\* that handles the result of entry i either sets the tools of entry i and
\* nothing else, or appends that result's error string to the error list
\* and nothing else; so at the return every error string is in the list as
\* often as results carry it, none lost and none duplicated.
C20_SingleWriter ==
    /\ [][InRun /\ (servers' # servers \/ tool_errors' # tool_errors) =>
            \E i \in 1..N :
               /\ pc = "collect" /\ task[i] = "done" /\ task'[i] = "applied"
               /\ \A j \in (1..N) \ {i} : task'[j] = task[j]
               /\ \/ /\ tool_errors' = tool_errors
                     /\ servers' = [servers EXCEPT ![i].tools = The(The(fut[i]).tools)]
                  \/ /\ servers' = servers
                     /\ tool_errors' = Append(tool_errors, The(The(fut[i]).error))]_vars
    /\ [](Returned /\ InRun =>
            /\ Len(tool_errors) =
                  Cardinality({i \in 1..N : ~IsNone(The(fut[i]).error)})
            /\ \A i \in 1..N :
                  ~IsNone(The(fut[i]).error) =>
                      Count(tool_errors, The(The(fut[i]).error)) =
                          Cardinality({j \in 1..N : The(fut[j]).error = The(fut[i]).error}))

C20_Witness ==
    /\ pc = "enriched" /\ N = 2 /\ InRun
    /\ Len(tool_errors) = 2
    /\ tool_errors[1] = The(The(fut[2]).error)
    /\ tool_errors[2] = The(The(fut[1]).error)
    /\ tool_errors[1] # tool_errors[2]

====
